---- MODULE Spec2Model ----
(***************************************************************************)
(* Model of the MindMap component                                          *)
(* (src/frontend/src/components/MindMap.tsx): level assignment, layout     *)
(* with overlap resolution, canvas growth, and the pan/zoom view state.    *)
(*                                                                         *)
(* Numbers: JavaScript numbers are modelled as exact rationals <<n, d>>    *)
(* (d > 0, lowest terms); floating-point rounding is not modelled.         *)
(* Node ids are modelled as non-numeric strings, so that the key order of  *)
(* an object is its insertion order.  A Record<string, T> is modelled as   *)
(* a sequence of entries in key order.                                     *)
(***************************************************************************)
EXTENDS Integers, Sequences, FiniteSets, TLC

\* ------------------------------------------------------------------------
\* Program constants
\* ------------------------------------------------------------------------
NODE_WIDTH == 180
NODE_HEIGHT == 80
VERTICAL_SPACING == 160
TopMargin == 100
OverlapGap == 20
MaxOverlapPasses == 5
CanvasMargin == 200
InitCanvasWidth == 1500
InitCanvasHeight == 1200

\* ------------------------------------------------------------------------
\* Bounds of the model
\* ------------------------------------------------------------------------
\* largest number of nodes of a tree-shaped input graph (layout checks)
MaxNodes == 7
\* number of departures from a tree added to an input graph of the layout
\* checks
MaxLayoutDefects == 1
\* largest denominator of a canvas width from which a layout pass is explored
MaxWidthDenominator == 1
\* largest number of nodes of an input tree of the canvas-growth checks
MaxGrowNodes == 4
\* number of bits of the significand of a floating-point number, where the
\* rounding of the numbers is modelled (the growth of the canvas); a double
\* has 53
SignificandBits == 15
\* number of events other than zoom requests in a behaviour: graph loads,
\* container resizes, view resets, centerings, mouse events
MaxEvents == 2
\* largest number of nodes of an input graph of the level-assignment checks
MaxLevelNodes == 4
\* number of departures from a tree added to an input graph of the
\* level-assignment checks (extra edge, dangling child, unreachable node)
MaxLevelDefects == 2
\* loads of new props after the mount in the load checks
MaxLoads == 2
\* mouse and wheel events in the pointer checks
MaxPointerEvents == 5
\* runs of the scale effect counted between two timer ticks
MaxScaleRuns == 2
\* mouse events of the animation checks
MaxAnimEvents == 3
\* events of the checks with every kind of event
MaxMixedEvents == 3

\* ------------------------------------------------------------------------
\* Exact rational arithmetic (JavaScript number arithmetic without rounding)
\* ------------------------------------------------------------------------
Abs(n) == IF n < 0 THEN -n ELSE n

RECURSIVE Gcd(_, _)
Gcd(a, b) == IF b = 0 THEN a ELSE Gcd(b, a % b)

\* the fraction n/d in lowest terms with a positive denominator
RNorm(n, d) ==
  LET g == Gcd(Abs(n), Abs(d))
      s == IF d < 0 THEN -1 ELSE 1
  IN  <<(s * n) \div g, (s * d) \div g>>

R(n) == <<n, 1>>
RAdd(p, q) ==
  LET g == Gcd(p[2], q[2])
  IN  RNorm(p[1] * (q[2] \div g) + q[1] * (p[2] \div g), (p[2] \div g) * q[2])
RNeg(p) == <<-p[1], p[2]>>
RSub(p, q) == RAdd(p, RNeg(q))
RMul(p, q) ==
  LET a == RNorm(p[1], q[2])
      b == RNorm(q[1], p[2])
  IN  <<a[1] * b[1], a[2] * b[2]>>
RDiv(p, q) == RMul(p, RNorm(q[2], q[1]))
\* p < q, by integer parts first and then by the fractional parts
RLt(p, q) ==
  LET fp == p[1] \div p[2]
      fq == q[1] \div q[2]
      g  == Gcd(p[2], q[2])
  IN  IF fp # fq THEN fp < fq
      ELSE (p[1] % p[2]) * (q[2] \div g) < (q[1] % q[2]) * (p[2] \div g)
RLe(p, q) == ~RLt(q, p)
RMax(p, q) == IF RLt(p, q) THEN q ELSE p

RECURSIVE Pow2(_)
Pow2(k) == IF k = 0 THEN 1 ELSE 2 * Pow2(k - 1)

\* the exponent of an integer n >= 1: the largest e with 2^e <= n
RECURSIVE Log2Floor(_)
Log2Floor(n) == IF n < 2 THEN 0 ELSE 1 + Log2Floor(n \div 2)

\* a number q >= 1 as a binary floating-point number with a significand of
\* bits bits, rounded to the nearest with ties to the even significand;
\* bits = 0 stands for exact arithmetic
FloatRound(bits, q) ==
  IF bits = 0 \/ RLt(q, R(1)) THEN q
  ELSE LET e   == Log2Floor(q[1] \div q[2])
           k   == bits - 1 - e
           m   == IF k >= 0 THEN RMul(q, R(Pow2(k))) ELSE RDiv(q, R(Pow2(-k)))
           f   == m[1] \div m[2]
           rem == 2 * (m[1] % m[2])
           r   == IF rem < m[2] THEN f
                  ELSE IF rem > m[2] THEN f + 1
                  ELSE IF f % 2 = 0 THEN f ELSE f + 1
       IN  IF k >= 0 THEN RNorm(r, Pow2(k)) ELSE R(r * Pow2(-k))

\* ------------------------------------------------------------------------
\* Input graphs: the props  { rootNodeId, nodes }
\* ------------------------------------------------------------------------
\* node ids in the order in which the input trees are numbered
IdList == <<"r", "a", "b", "c", "d", "e", "f", "g", "h">>
\* id of a node of `nodes` that the root does not reach
OrphanId == "u"
\* id that appears in a children list and is not a key of `nodes`
DanglingId == "z"

RECURSIVE SeqToSet(_)
SeqToSet(s) == IF s = <<>> THEN {} ELSE {Head(s)} \cup SeqToSet(Tail(s))

\* Object.keys(nodes)
Keys(ns) == [i \in 1..Len(ns) |-> ns[i].id]
\* nodes[id] is not undefined
HasNode(ns, id) == \E i \in 1..Len(ns) : ns[i].id = id
\* nodes[id].children || []
ChildrenOf(ns, id) ==
  LET i == CHOOSE i \in 1..Len(ns) : ns[i].id = id IN ns[i].children

\* Parent vectors of the ordered rooted trees with n nodes, the nodes numbered
\* in breadth-first order: v[1] = 0 and v[i] is the number of node i's parent.
RECURSIVE ParentVectors(_)
ParentVectors(n) ==
  IF n = 1 THEN {<<0>>}
  ELSE UNION {{Append(v, p) : p \in (IF n = 2 THEN 1 ELSE v[n - 1])..(n - 1)} :
              v \in ParentVectors(n - 1)}

\* the nodes object of the tree with parent vector v, keys in numbering order
TreeNodes(v) ==
  [i \in 1..Len(v) |->
     [id |-> IdList[i],
      children |-> LET js == SelectSeq([j \in 1..Len(v) |-> j], LAMBDA j : v[j] = i)
                   IN  [k \in 1..Len(js) |-> IdList[js[k]]]]]

TreesUpTo(n) == UNION {{TreeNodes(v) : v \in ParentVectors(m)} : m \in 1..n}

\* nodes[p].children.push(c)
AddEdge(ns, p, c) ==
  [i \in 1..Len(ns) |->
     IF ns[i].id = p THEN [ns[i] EXCEPT !.children = Append(@, c)] ELSE ns[i]]

\* One departure from a tree: an extra entry in a children list (a second
\* parent, a back edge, a self loop, a duplicate, or a child that is no key
\* of nodes), or a node the root does not reach (with at most one child).
Defects(ns) ==
  LET ks == SeqToSet(Keys(ns))
  IN  {AddEdge(ns, p, c) : p \in ks, c \in ks \cup {DanglingId}}
      \cup (IF OrphanId \in ks THEN {}
            ELSE {Append(ns, [id |-> OrphanId, children |-> <<>>])}
                 \cup {Append(ns, [id |-> OrphanId, children |-> <<c>>]) : c \in ks})

RECURSIVE WithDefects(_, _)
WithDefects(S, k) ==
  IF k = 0 THEN S
  ELSE S \cup WithDefects(UNION {Defects(g) : g \in S}, k - 1)

\* the same object with its keys inserted in the opposite order
ReverseKeys(ns) == [i \in 1..Len(ns) |-> ns[Len(ns) + 1 - i]]

\* input graphs of the layout checks, each in both key orders
LayoutGraphs ==
  LET T == WithDefects(TreesUpTo(MaxNodes), MaxLayoutDefects)
  IN  T \cup {ReverseKeys(g) : g \in T}

\* input graphs of the level-assignment checks
LevelGraphs == WithDefects(TreesUpTo(MaxLevelNodes), MaxLevelDefects)

\* ------------------------------------------------------------------------
\* Level assignment: the BFS of the level effect
\* ------------------------------------------------------------------------
\* A Record<string, number> in key (insertion) order: entries [id, level].
LevelsHas(lv, id) == \E i \in 1..Len(lv) : lv[i].id = id
LevelsGet(lv, id) == LET i == CHOOSE i \in 1..Len(lv) : lv[i].id = id IN lv[i].level
\* levels[id] = level : an existing key keeps its place in the key order
LevelsSet(lv, id, level) ==
  IF LevelsHas(lv, id)
  THEN [lv EXCEPT ![CHOOSE i \in 1..Len(lv) : lv[i].id = id] = [id |-> id, level |-> level]]
  ELSE Append(lv, [id |-> id, level |-> level])
\* !levels[childId] : undefined and 0 are both falsy
LevelFalsy(lv, id) == ~LevelsHas(lv, id) \/ LevelsGet(lv, id) = 0

\* BfsPushes with  level  for  level + 1
BfsPushesSameLevel(ns, lv, id, level) ==
  IF ~HasNode(ns, id) THEN <<>>
  ELSE LET cs == SelectSeq(ChildrenOf(ns, id), LAMBDA c : LevelFalsy(lv, c))
       IN  [k \in 1..Len(cs) |-> [id |-> cs[k], level |-> level]]

\* BfsPushes without the  !levels[childId]  test: every child is pushed
BfsPushesAll(ns, lv, id, level) ==
  IF ~HasNode(ns, id) THEN <<>>
  ELSE LET cs == ChildrenOf(ns, id)
       IN  [k \in 1..Len(cs) |-> [id |-> cs[k], level |-> level + 1]]

\* the entries one dequeue pushes: the children whose level is falsy
BfsPushes(ns, lv, id, level) ==
  IF ~HasNode(ns, id) THEN <<>>
  ELSE LET cs == SelectSeq(ChildrenOf(ns, id), LAMBDA c : LevelFalsy(lv, c))
       IN  [k \in 1..Len(cs) |-> [id |-> cs[k], level |-> level + 1]]

\* one iteration of  while (queue.length > 0) : the state <<queue, levels>> after it
BfsStep(ns, q, lv) ==
  LET head == Head(q)
      lv1  == LevelsSet(lv, head.id, head.level)
  IN  <<Tail(q) \o BfsPushes(ns, lv1, head.id, head.level), lv1>>

\* the whole loop: the levels object when the queue is empty
RECURSIVE BfsRun(_, _, _)
BfsRun(ns, q, lv) ==
  IF q = <<>> THEN lv
  ELSE LET s == BfsStep(ns, q, lv) IN BfsRun(ns, s[1], s[2])

\* the guard without its second test
RootOkNonEmpty(ns, root) == root # ""

\* the guard of the level effect:  !rootNodeId || !nodes[rootNodeId]
RootOk(ns, root) == root # "" /\ HasNode(ns, root)

\* the levels the level effect publishes for a graph that passes the guard
ComputeLevels(ns, root) == BfsRun(ns, <<[id |-> root, level |-> 0]>>, <<>>)

\* ------------------------------------------------------------------------
\* Layout: the body of the layout effect
\* ------------------------------------------------------------------------
\* A Record<string, {x, y}> in key (insertion) order: entries [id, x, y].
PosHas(ps, id) == \E i \in 1..Len(ps) : ps[i].id = id
PosIndex(ps, id) == CHOOSE i \in 1..Len(ps) : ps[i].id = id
PosGet(ps, id) == ps[PosIndex(ps, id)]
\* positions[id] = { x, y } : an existing key keeps its place in the key order
PosSet(ps, id, x, y) ==
  IF PosHas(ps, id)
  THEN [ps EXCEPT ![PosIndex(ps, id)] = [id |-> id, x |-> x, y |-> y]]
  ELSE Append(ps, [id |-> id, x |-> x, y |-> y])
\* positions[id].x = x
PosSetX(ps, id, x) == [ps EXCEPT ![PosIndex(ps, id)].x = x]

\* the elements of a finite set of integers in ascending order
RECURSIVE Ascending(_)
Ascending(S) ==
  IF S = {} THEN <<>>
  ELSE LET m == CHOOSE m \in S : \A n \in S : m <= n
       IN  <<m>> \o Ascending(S \ {m})

\* nodesByLevel (lines 192-198) as Object.entries lists it: integer keys in
\* ascending order, each with its ids in the key order of nodeLevels
GroupByLevel(lv) ==
  LET ls == Ascending({lv[i].level : i \in 1..Len(lv)})
  IN  [g \in 1..Len(ls) |->
         [level |-> ls[g],
          ids   |-> LET es == SelectSeq(lv, LAMBDA e : e.level = ls[g])
                    IN  [k \in 1..Len(es) |-> es[k].id]]]

\* line 218: Object.keys(nodes).find(id => children(id).includes(nodeId));
\* "" stands for undefined
FindParent(ns, id) ==
  LET hits == SelectSeq(Keys(ns), LAMBDA p : id \in SeqToSet(ChildrenOf(ns, p)))
  IN  IF hits = <<>> THEN "" ELSE hits[1]

\* the x of a node with the parent's x weighted 0.4 instead of 0.3
NodeXHeavyParent(W, n, i, parentX) ==
  IF n = 1 THEN parentX
  ELSE LET levelWidth == RMul(W, <<4, 5>>)
           startX     == RDiv(RSub(W, levelWidth), R(2))
           spacing    == RDiv(levelWidth, R(n - 1))
           x          == RAdd(startX, RMul(R(i), spacing))
       IN  RAdd(RMul(x, <<7, 10>>), RMul(parentX, <<2, 5>>))

\* lines 224-236: the x of the node with index i (from 0) of a level of n nodes
NodeX(W, n, i, parentX) ==
  IF n = 1 THEN parentX
  ELSE LET levelWidth == RMul(W, <<4, 5>>)
           startX     == RDiv(RSub(W, levelWidth), R(2))
           spacing    == RDiv(levelWidth, R(n - 1))
           x          == RAdd(startX, RMul(R(i), spacing))
       IN  RAdd(RMul(x, <<7, 10>>), RMul(parentX, <<3, 10>>))

\* line 239
NodeY(level) == R(TopMargin + level * VERTICAL_SPACING)

\* lines 216-246: the forEach over one level's ids from index k on;
\* acc = [pos, maxWidth, maxHeight]
RECURSIVE PlaceLevel(_, _, _, _, _, _)
PlaceLevel(ns, W, level, ids, k, acc) ==
  IF k > Len(ids) THEN acc
  ELSE LET id     == ids[k]
           parent == FindParent(ns, id)
       IN  IF parent = "" \/ ~PosHas(acc.pos, parent)
           THEN PlaceLevel(ns, W, level, ids, k + 1, acc)
           ELSE LET x == NodeX(W, Len(ids), k - 1, PosGet(acc.pos, parent).x)
                    y == NodeY(level)
                IN  PlaceLevel(ns, W, level, ids, k + 1,
                      [pos       |-> PosSet(acc.pos, id, x, y),
                       maxWidth  |-> RMax(acc.maxWidth, RAdd(x, R(NODE_WIDTH))),
                       maxHeight |-> RMax(acc.maxHeight, RAdd(y, R(NODE_HEIGHT)))])

\* lines 207-247: the forEach over the levels from group g on
RECURSIVE PlaceGroups(_, _, _, _, _)
PlaceGroups(ns, W, groups, g, acc) ==
  IF g > Len(groups) THEN acc
  ELSE IF groups[g].level = 0 THEN PlaceGroups(ns, W, groups, g + 1, acc)
  ELSE PlaceGroups(ns, W, groups, g + 1,
                   PlaceLevel(ns, W, groups[g].level, groups[g].ids, 1, acc))

\* lines 187-247: positions, maxWidth and maxHeight before overlap resolution
Place(ns, root, lv, W) ==
  PlaceGroups(ns, W, GroupByLevel(lv), 1,
              [pos       |-> <<[id |-> root, x |-> RDiv(W, R(2)), y |-> R(TopMargin)]>>,
               maxWidth  |-> R(0),
               maxHeight |-> R(0)])

\* line 259: nodeIds.sort by x, a stable sort (insertion into a sorted prefix)
RECURSIVE InsertByX(_, _, _)
InsertByX(ps, sorted, id) ==
  IF sorted = <<>> THEN <<id>>
  ELSE IF RLt(PosGet(ps, id).x, PosGet(ps, Head(sorted)).x)
       THEN <<id>> \o sorted
       ELSE <<Head(sorted)>> \o InsertByX(ps, Tail(sorted), id)
RECURSIVE SortByX(_, _)
SortByX(ps, ids) ==
  IF ids = <<>> THEN <<>>
  ELSE InsertByX(ps, SortByX(ps, SubSeq(ids, 1, Len(ids) - 1)), ids[Len(ids)])

\* line 259: the comparator reads positions[a].x : it throws a TypeError when
\* it is called (two ids or more) on an id that has no position
SortThrows(ps, ids) == Len(ids) >= 2 /\ \E k \in 1..Len(ids) : ~PosHas(ps, ids[k])

\* line 268 without the gap: positions[current].x + NODE_WIDTH
RightEdgeNoGap(x) == RAdd(x, R(NODE_WIDTH))

\* line 268: currentRightEdge = positions[current].x + NODE_WIDTH + 20
RightEdge(x) == RAdd(RAdd(x, R(NODE_WIDTH)), R(OverlapGap))

\* lines 262-278: the pairs (ids[k], ids[k+1]) from k on; acc = [pos, changed]
RECURSIVE ResolvePairs(_, _, _)
ResolvePairs(ids, k, acc) ==
  IF k >= Len(ids) THEN acc
  ELSE LET cur == PosGet(acc.pos, ids[k])
           nxt == PosGet(acc.pos, ids[k + 1])
           rightEdge == RightEdge(cur.x)
           leftEdge  == nxt.x
       IN  IF RLt(leftEdge, rightEdge)
           THEN LET half == RDiv(RSub(rightEdge, leftEdge), R(2))
                    p1   == PosSetX(acc.pos, ids[k], RSub(cur.x, half))
                    p2   == PosSetX(p1, ids[k + 1], RAdd(nxt.x, half))
                IN  ResolvePairs(ids, k + 1, [pos |-> p2, changed |-> TRUE])
           ELSE ResolvePairs(ids, k + 1, acc)

\* lines 250-282: one call of resolveOverlaps from group g on;
\* acc = [groups, pos, changed, threw]; the sort reorders nodesByLevel in place
RECURSIVE ResolveGroups(_, _)
ResolveGroups(g, acc) ==
  IF g > Len(acc.groups) \/ acc.threw THEN acc
  ELSE IF acc.groups[g].level = 0 THEN ResolveGroups(g + 1, acc)
  ELSE IF SortThrows(acc.pos, acc.groups[g].ids)
       THEN [acc EXCEPT !.threw = TRUE]
  ELSE IF Len(acc.groups[g].ids) < 2 THEN ResolveGroups(g + 1, acc)
  ELSE LET ids == SortByX(acc.pos, acc.groups[g].ids)
           r   == ResolvePairs(ids, 1, [pos |-> acc.pos, changed |-> acc.changed])
       IN  ResolveGroups(g + 1,
             [groups  |-> [acc.groups EXCEPT ![g].ids = ids],
              pos     |-> r.pos,
              changed |-> r.changed,
              threw   |-> FALSE])

\* lines 285-287: the passes from pass i on (i from 0); the result records
\* whether the last pass that ran changed a position
RECURSIVE ResolveLoop(_, _, _)
ResolveLoop(i, groups, pos) ==
  IF i >= MaxOverlapPasses
  THEN [pos |-> pos, threw |-> FALSE, settled |-> FALSE, passes |-> i]
  ELSE LET r == ResolveGroups(1, [groups |-> groups, pos |-> pos,
                                  changed |-> FALSE, threw |-> FALSE])
       IN  IF r.threw
           THEN [pos |-> pos, threw |-> TRUE, settled |-> FALSE, passes |-> i + 1]
           ELSE IF ~r.changed
           THEN [pos |-> r.pos, threw |-> FALSE, settled |-> TRUE, passes |-> i + 1]
           ELSE ResolveLoop(i + 1, r.groups, r.pos)

\* the guard of the layout effect (line 183) is passed
LayoutRuns(ns, root, lv) == RootOk(ns, root) /\ Len(lv) > 0

\* lines 187-295: what one run of the layout effect computes from the graph,
\* the level map and the canvas size (W, H) of its render:
\*   threw    - the sort comparator threw, nothing is written
\*   pos      - the positions handed to setNodePositions
\*   width, height - the size handed to setCanvasSize
\*   settled  - the overlap loop ended on a pass without change
\*   passes   - the number of resolveOverlaps calls
Layout(ns, root, lv, W, H) ==
  LET placed == Place(ns, root, lv, W)
      res    == ResolveLoop(0, GroupByLevel(lv), placed.pos)
  IN  [threw   |-> res.threw,
       pos     |-> res.pos,
       width   |-> RMax(W, RAdd(placed.maxWidth, R(CanvasMargin))),
       height  |-> RMax(H, RAdd(placed.maxHeight, R(CanvasMargin))),
       settled |-> res.settled,
       passes  |-> res.passes]

\* ------------------------------------------------------------------------
\* Props validation (lines 125-145) and node scales (lines 148-154, 308-321)
\* ------------------------------------------------------------------------
\* the value of the prop nodes when the parent passes none (undefined)
NoNodes == <<[id |-> "undefined", children |-> <<>>]>>
\* the prop nodes is undefined
NodesAbsent(ns) == ns = NoNodes

\* the values the validation effect gives the debug state
MissingRoot == [message |-> "Missing rootNodeId prop", hasError |-> TRUE]
MissingNodeMap == [message |-> "Missing nodes prop", hasError |-> TRUE]
RootNotFound == [message |-> "Root node not found in nodes object", hasError |-> TRUE]
PropsValid == [message |-> "Props validated successfully", hasError |-> FALSE]

\* lines 129-144: the checks of the validation effect, in their order
Validate(root, ns) ==
  IF root = "" THEN MissingRoot
  ELSE IF NodesAbsent(ns) THEN MissingNodeMap
  ELSE IF ~HasNode(ns, root) THEN RootNotFound
  ELSE PropsValid

\* NaN as a node scale (a denominator of 0)
NaN == <<0, 0>>
\* the targets of the scale effect (lines 313-314) and its weights (line 317)
HoverTarget == <<21, 20>>
SelectTarget == <<11, 10>>
KeepWeight == <<9, 10>>
TargetWeight == <<1, 10>>

ScalesHas(sc, id) == \E i \in 1..Len(sc) : sc[i].id = id
ScalesIndex(sc, id) == CHOOSE i \in 1..Len(sc) : sc[i].id = id
\* nodeScales[id]: undefined gives NaN in the arithmetic of line 317
ScalesGet(sc, id) == IF ScalesHas(sc, id) THEN sc[ScalesIndex(sc, id)].scale ELSE NaN
\* newScales[id] = v
ScalesSet(sc, id, v) ==
  IF ScalesHas(sc, id) THEN [sc EXCEPT ![ScalesIndex(sc, id)].scale = v]
  ELSE Append(sc, [id |-> id, scale |-> v])

\* lines 149-152: every key of nodes at scale 1.0
InitialScales(ns) == [i \in 1..Len(ns) |-> [id |-> ns[i].id, scale |-> R(1)]]

\* lines 313-314: the target scale of a node
TargetScale(id, hovered, selected) ==
  IF id = hovered THEN HoverTarget
  ELSE IF id = selected THEN SelectTarget
  ELSE R(1)

\* lines 313-317: the scale of one node after a run of the scale effect
ScaleStep(v, id, hovered, selected) ==
  LET targetScale == TargetScale(id, hovered, selected)
  IN  IF v = NaN THEN NaN
      ELSE RAdd(RMul(v, KeepWeight), RMul(targetScale, TargetWeight))

\* lines 309-320: the object the scale effect passes to setNodeScales
RECURSIVE ScaleEffect(_, _, _, _, _)
ScaleEffect(ns, k, sc, hovered, selected) ==
  IF k > Len(ns) THEN sc
  ELSE ScaleEffect(ns, k + 1,
         ScalesSet(sc, ns[k].id, ScaleStep(ScalesGet(sc, ns[k].id), ns[k].id,
                                           hovered, selected)),
         hovered, selected)

\* line 430: nodeScale = nodeScales[nodeId] || 1.0, the scale a node is drawn at
DrawnScale(sc, id) ==
  LET v == ScalesGet(sc, id) IN IF v = NaN \/ v = R(0) THEN R(1) ELSE v

\* ------------------------------------------------------------------------
\* State
\* ------------------------------------------------------------------------
VARIABLES
  nodes,         \* prop nodes: sequence of [id, children] in key order
  rootNodeId,    \* prop rootNodeId
  nodeLevels,    \* state nodeLevels: sequence of [id, level] in key order
  queue,         \* level effect: the local BFS queue
  levels,        \* level effect: the local levels object
  pc,            \* level effect: "start", "loop" (in the while loop), "done"
  canvasSize,    \* state canvasSize: [width, height]
  nodePositions, \* state nodePositions: sequence of [id, x, y] in key order
  containerSize, \* the container's bounding rectangle: [width, height]
  canvasQueue,   \* setCanvasSize updates queued since the last render
  pendLevels,    \* setNodeLevels value queued since the last render
  pendPositions, \* setNodePositions value queued since the last render
  effects,       \* effects of the last render that have not run yet
  crashed,       \* an effect threw: the component is unmounted
  canvasRect,    \* size of the canvas element's bounding rectangle
  debug,         \* state debug: [message, hasError]
  pendDebug,     \* setDebug value queued since the last render
  nodeScales,    \* state nodeScales: sequence of [id, scale] in key order
  animationFrame, \* state animationFrame
  timers,        \* number of interval timers set and not cleared
  lifecycle,     \* "constructed", "mounted" (the first effects ran), "unmounted"
  scaleRuns,     \* history: runs of the scale effect since the last timer tick
  lastLayout,    \* history: inputs and results of the last layout pass
  layoutLog,     \* history: inputs and positions of every completed pass
  scale,         \* state scale
  offset,        \* state offset: [x, y]
  dragging,      \* state dragging
  dragStart,     \* state dragStart: [x, y]
  hoveredNode,   \* state hoveredNode: an id or NoNode
  selectedNode,  \* state selectedNode: an id or NoNode
  clamped,       \* history: the bound the last zoom request ran into
  pointer,       \* history: the pointer location of the last mouse event
  dragOrigin,    \* history: pointer location and offset at the start of the drag
  events         \* number of counted events so far

levelVars == <<nodes, rootNodeId, nodeLevels, queue, levels, pc>>
pipeVars == <<canvasSize, nodePositions, containerSize, canvasQueue, pendLevels,
              pendPositions, effects, crashed, canvasRect, debug, pendDebug,
              nodeScales, animationFrame, timers, lifecycle, scaleRuns,
              lastLayout, layoutLog>>
viewVars == <<scale, offset, dragging, dragStart, hoveredNode, selectedNode>>
histVars == <<clamped, pointer, dragOrigin, events>>
vars == <<levelVars, pipeVars, viewVars, histVars>>

\* null as the value of hoveredNode and selectedNode
NoNode == ""
\* no queued value
NoUpdate == [set |-> FALSE, val |-> <<>>]
\* no layout pass has run
NoLayout ==
  [ran |-> FALSE, nodes |-> <<>>, root |-> "", W |-> R(0), H |-> R(0), lv |-> <<>>,
   threw |-> FALSE, pos |-> <<>>, width |-> R(0), height |-> R(0),
   settled |-> FALSE, passes |-> 0, again |-> FALSE, zoomed |-> FALSE, prev |-> <<>>]

\* a canvas element without width and height attributes is 300 x 150
\* until the sizing effect (lines 111-122) sets its style
DefaultCanvasWidth == 300
DefaultCanvasHeight == 150

\* useState's initial values (lines 73-84) and nothing queued
PipeIdle ==
  /\ canvasSize = [width |-> R(InitCanvasWidth), height |-> R(InitCanvasHeight)]
  /\ nodePositions = <<>>
  /\ canvasQueue = <<>>
  /\ pendLevels = NoUpdate
  /\ pendPositions = NoUpdate
  /\ crashed = FALSE
  /\ canvasRect = [width |-> R(DefaultCanvasWidth), height |-> R(DefaultCanvasHeight)]
  /\ debug = [message |-> "", hasError |-> FALSE]
  /\ pendDebug = NoUpdate
  /\ nodeScales = <<>>
  /\ animationFrame = 0
  /\ timers = 0
  /\ lifecycle = "constructed"
  /\ scaleRuns = 0
  /\ lastLayout = NoLayout
  /\ layoutLog = {}

\* no mouse event yet
NoPointer == [x |-> R(-1), y |-> R(-1), kind |-> "none"]
\* the location p of a mouse event of the given kind
Mouse(p, kind) == [x |-> p.x, y |-> p.y, kind |-> kind]
\* no drag started yet
NoDrag == [p |-> NoPointer, o |-> [x |-> R(0), y |-> R(0)]]

\* useState's initial values of the view state (lines 74-79)
ViewIdle ==
  /\ scale = R(1)
  /\ offset = [x |-> R(0), y |-> R(0)]
  /\ dragging = FALSE
  /\ dragStart = [x |-> R(0), y |-> R(0)]
  /\ hoveredNode = NoNode
  /\ selectedNode = NoNode
  /\ clamped = "none"
  /\ pointer = NoPointer
  /\ dragOrigin = NoDrag
  /\ events = 0

\* ------------------------------------------------------------------------
\* The level effect, one loop iteration per step
\* ------------------------------------------------------------------------
\* cap on the queue length and on a queued level in the loop's guard; the
\* loop of the source has no such cap
MaxBfs == 8

InitLevel ==
  /\ nodes \in LevelGraphs
  /\ rootNodeId = IdList[1]
  /\ nodeLevels = <<>>
  /\ queue = <<>>
  /\ levels = <<>>
  /\ pc = "start"
  /\ containerSize = [width |-> R(0), height |-> R(0)]
  /\ effects = {}
  /\ PipeIdle
  /\ ViewIdle

\* lines 158-163: the guard, then  queue = [{ id: rootNodeId, level: 0 }]
LevelStart ==
  /\ pc = "start"
  /\ RootOk(nodes, rootNodeId)
  /\ queue' = <<[id |-> rootNodeId, level |-> 0]>>
  /\ levels' = <<>>
  /\ pc' = "loop"
  /\ UNCHANGED <<nodes, rootNodeId, nodeLevels, pipeVars, viewVars, histVars>>

\* lines 164-176: one iteration of the while loop
LevelDequeue ==
  /\ pc = "loop"
  /\ queue # <<>>
  /\ Len(queue) <= MaxBfs /\ Head(queue).level <= MaxBfs
  /\ LET s == BfsStep(nodes, queue, levels)
     IN  queue' = s[1] /\ levels' = s[2]
  /\ UNCHANGED <<nodes, rootNodeId, nodeLevels, pc, pipeVars, viewVars, histVars>>

\* line 178: setNodeLevels(levels) once the queue is empty
LevelPublish ==
  /\ pc = "loop"
  /\ queue = <<>>
  /\ nodeLevels' = levels
  /\ pc' = "done"
  /\ UNCHANGED <<nodes, rootNodeId, queue, levels, pipeVars, viewVars, histVars>>

NextLevel == LevelStart \/ LevelDequeue \/ LevelPublish

SpecLevel == InitLevel /\ [][NextLevel]_vars

\* The effect body runs to completion once started (single-threaded,
\* synchronous code): every enabled step is eventually taken.
SpecLevelFair == SpecLevel /\ WF_vars(NextLevel)

\* ------------------------------------------------------------------------
\* The render / effect cycle of the component
\*
\* A render commits the queued state updates; the effects whose dependencies
\* changed then run, in the order of their declaration and without
\* interruption, before the next render; their setState calls are queued for
\* that next render.  Events may arrive between a render, the run of its
\* effects and the next render.
\* ------------------------------------------------------------------------
\* sizes getBoundingClientRect may report for the container
ContainerSizes ==
  {[width |-> R(800), height |-> R(600)], [width |-> R(1600), height |-> R(1300)]}

\* the effects of the first render that the model tracks: the resize effect
\* (lines 93-108), the sizing effect (111-122), the validation effect
\* (125-145), the scale initialisation (148-154), the level effect (157-179),
\* the layout effect (182-296), the interval effect (299-305).  The scale
\* effect (308-321) depends on the object it sets and runs after every
\* render.
MountEffects ==
  {"resize", "size", "validate", "initScales", "levels", "layout", "interval"}
\* the effects that depend on the props rootNodeId or nodes
PropsEffects == {"validate", "initScales", "levels", "layout"}

\* lines 98-101: setCanvasSize(prevSize => max(container, prevSize))
ResizeUpdate(size) == [kind |-> "max", width |-> size.width, height |-> size.height]
\* lines 290-293: setCanvasSize({ width, height })
SetUpdate(w, h) == [kind |-> "set", width |-> w, height |-> h]

\* the state after one queued setCanvasSize update, with a resize update
\* that replaces the size
ApplyCanvasReplace(size, u) == [width |-> u.width, height |-> u.height]

\* the state after one queued setCanvasSize update
ApplyCanvas(size, u) ==
  IF u.kind = "max"
  THEN [width |-> RMax(u.width, size.width), height |-> RMax(u.height, size.height)]
  ELSE [width |-> u.width, height |-> u.height]

\* the state after the queued updates, in the order of their calls
RECURSIVE FoldCanvas(_, _)
FoldCanvas(size, q) ==
  IF q = <<>> THEN size ELSE FoldCanvas(ApplyCanvas(size, Head(q)), Tail(q))

\* the inputs of a layout pass: the graph with its root, the level map, the
\* canvas width
LayoutInputs(e) == <<e.nodes, e.root, e.lv, e.W>>

\* a count of runs of the scale effect, not counted beyond MaxScaleRuns
Saturated(n) == IF n > MaxScaleRuns THEN MaxScaleRuns ELSE n

\* the value of nodeScales after the setNodeScales calls of one run of the
\* effects: the scale initialisation's (line 153) when it ran, then the
\* scale effect's (line 320), computed from the nodeScales of the render
ScalesAfterEffects(initRan) ==
  LET q == (IF initRan THEN <<InitialScales(nodes)>> ELSE <<>>)
             \o <<ScaleEffect(nodes, 1, nodeScales, hoveredNode, selectedNode)>>
  IN  q[Len(q)]

\* the layout effect reading the canvas width as it shows at the zoom scale
LayoutPassZoomed ==
  Layout(nodes, rootNodeId, nodeLevels, RMul(canvasSize.width, scale), canvasSize.height)

\* lines 187-295: the body of the layout effect on the props and the state
\* of its render
LayoutPass ==
  Layout(nodes, rootNodeId, nodeLevels, canvasSize.width, canvasSize.height)

\* the result of a layout pass with the size it hands to setCanvasSize as
\* floating-point numbers
RoundedSize(bits, L) ==
  IF L.threw THEN L
  ELSE [L EXCEPT !.width = FloatRound(bits, @), !.height = FloatRound(bits, @)]

\* the largest denominator of a canvas width from which a layout pass is
\* explored
WidthDenominators(bits) == IF bits = 0 THEN MaxWidthDenominator ELSE Pow2(bits)

\* effects of the last render are due (and the layout effect, when it is
\* among them, is within the widths explored)
EffectsDue(bits) ==
  /\ ~crashed
  /\ effects # {}
  /\ "layout" \in effects => canvasSize.width[2] <= WidthDenominators(bits)

\* The effects of the last render run, in the order of their declaration:
\* resize effect (on mount), sizing effect, validation, scale initialisation,
\* level effect, layout effect, scale effect.  The layout effect reads
\* nodeLevels and canvasSize of its render, not the values queued by the
\* effects before it.  Without a nodes object Object.keys(nodes) (line 150)
\* throws.  The render that commits the queued node scales changes nothing
\* else and is folded into this step.  The draw effect (324-534) depends on
\* nodeScales and runs last in every run; it reads the props and the state
\* of the render and writes the canvas only.  The numbers of the canvas size
\* are exact for bits = 0 and floating-point numbers of bits bits otherwise.
FlushEffectsAt(bits) ==
  /\ EffectsDue(bits)
  /\ LET absent == NodesAbsent(nodes)
         run    == /\ ~absent
                   /\ "layout" \in effects
                   /\ LayoutRuns(nodes, rootNodeId, nodeLevels)
     IN
     \E L \in {IF run THEN RoundedSize(bits, LayoutPass) ELSE [threw |-> FALSE]} :
     LET q1  == IF "resize" \in effects
                THEN Append(canvasQueue, ResizeUpdate(containerSize))
                ELSE canvasQueue
         ok  == run /\ ~L.threw
         new == [nodes |-> nodes, root |-> rootNodeId, lv |-> nodeLevels,
                 W |-> canvasSize.width]
     IN  /\ canvasQueue' = IF ok THEN Append(q1, SetUpdate(L.width, L.height)) ELSE q1
         /\ canvasRect' = IF "size" \in effects THEN canvasSize ELSE canvasRect
         /\ pendDebug' = IF "validate" \in effects
                         THEN [set |-> TRUE, val |-> Validate(rootNodeId, nodes)]
                         ELSE pendDebug
         /\ nodeScales' = IF absent THEN nodeScales
                          ELSE ScalesAfterEffects("initScales" \in effects)
         /\ pendLevels' = IF ~absent /\ "levels" \in effects /\ RootOk(nodes, rootNodeId)
                          THEN [set |-> TRUE, val |-> ComputeLevels(nodes, rootNodeId)]
                          ELSE pendLevels
         /\ pendPositions' = IF ok THEN [set |-> TRUE, val |-> L.pos] ELSE pendPositions
         /\ crashed' = (absent \/ (run /\ L.threw))
         /\ timers' = IF absent \/ (run /\ L.threw) THEN 0
                      ELSE IF "interval" \in effects THEN timers + 1
                      ELSE timers
         /\ lifecycle' = IF absent \/ (run /\ L.threw) THEN "unmounted" ELSE "mounted"
         /\ scaleRuns' = IF absent \/ (run /\ L.threw) THEN scaleRuns
                         ELSE Saturated(scaleRuns + 1)
         /\ lastLayout' =
              IF ~run THEN lastLayout
              ELSE IF L.threw
              THEN [NoLayout EXCEPT !.ran = TRUE, !.threw = TRUE, !.nodes = nodes,
                                    !.root = rootNodeId,
                                    !.W = canvasSize.width, !.H = canvasSize.height,
                                    !.lv = nodeLevels]
              ELSE [ran |-> TRUE, nodes |-> nodes, root |-> rootNodeId,
                    W |-> canvasSize.width,
                    H |-> canvasSize.height, lv |-> nodeLevels, threw |-> FALSE,
                    pos |-> L.pos, width |-> L.width, height |-> L.height,
                    settled |-> L.settled, passes |-> L.passes,
                    again |-> /\ lastLayout.ran
                              /\ LayoutInputs(lastLayout) = LayoutInputs(new)
                              /\ lastLayout.zoomed # (scale # R(1))
                              /\ lastLayout.prev # nodePositions,
                    zoomed |-> (scale # R(1)), prev |-> nodePositions]
         /\ layoutLog' = IF ok
                         THEN layoutLog \cup {[nodes |-> nodes, root |-> rootNodeId,
                                               lv |-> nodeLevels,
                                               W |-> canvasSize.width, pos |-> L.pos]}
                         ELSE layoutLog
  /\ effects' = {}
  /\ UNCHANGED <<levelVars, canvasSize, nodePositions, containerSize, debug,
                 animationFrame, viewVars, histVars>>

\* the effects in exact arithmetic
FlushEffects == FlushEffectsAt(0)

\* the effects in floating-point arithmetic
FlushEffectsFloat == FlushEffectsAt(SignificandBits)

\* an event is counted
Counted == events < MaxEvents /\ events' = events + 1

\* the effects a render would schedule if the layout effect depended on the
\* canvasSize object
EffectsOfCommitByObject ==
  (IF canvasQueue # <<>> THEN {"size"} ELSE {})
    \cup (IF pendLevels.set \/ canvasQueue # <<>> THEN {"layout"} ELSE {})

\* the effects scheduled by a render that commits the queued updates: the
\* sizing effect when canvasSize is a new object (line 122), the layout effect
\* when nodeLevels is a new object or the width or the height differs
\* (line 296)
EffectsOfCommit ==
  (IF canvasQueue # <<>> THEN {"size"} ELSE {})
    \cup (IF pendLevels.set \/ FoldCanvas(canvasSize, canvasQueue) # canvasSize
          THEN {"layout"} ELSE {})

\* the queued state updates are committed
Commit ==
  /\ canvasSize' = FoldCanvas(canvasSize, canvasQueue)
  /\ nodeLevels' = IF pendLevels.set THEN pendLevels.val ELSE nodeLevels
  /\ nodePositions' = IF pendPositions.set THEN pendPositions.val ELSE nodePositions
  /\ debug' = IF pendDebug.set THEN pendDebug.val ELSE debug
  /\ canvasQueue' = <<>>
  /\ pendLevels' = NoUpdate
  /\ pendPositions' = NoUpdate
  /\ pendDebug' = NoUpdate

\* A render caused by queued state updates.
Render ==
  /\ ~crashed
  /\ effects = {}
  /\ canvasQueue # <<>> \/ pendLevels.set \/ pendPositions.set \/ pendDebug.set
  /\ Commit
  /\ effects' = EffectsOfCommit
  /\ UNCHANGED <<nodes, rootNodeId, queue, levels, pc, containerSize, crashed,
                 canvasRect, nodeScales, animationFrame, timers, lifecycle,
                 scaleRuns, lastLayout, layoutLog, viewVars, histVars>>

\* A render caused by new props: the parent passes another root id and
\* another graph.  The effects that depend on them run again (lines 145,
\* 154, 179 and 296).
LoadProps(root, g) ==
  /\ ~crashed
  /\ effects = {}
  /\ rootNodeId' = root
  /\ nodes' = g
  /\ Commit
  /\ effects' = EffectsOfCommit \cup PropsEffects
  /\ UNCHANGED <<queue, levels, pc, containerSize, crashed, canvasRect, nodeScales,
                 animationFrame, timers, lifecycle, scaleRuns,
                 lastLayout, layoutLog, viewVars, clamped, pointer, dragOrigin>>

\* the parent passes another graph with the same root id
LoadGraph(g) == LoadProps(rootNodeId, g)

\* lines 94-106: the window's resize listener, registered by the resize
\* effect, with the container at the given size
Resize(size) ==
  /\ ~crashed
  /\ "resize" \notin effects
  /\ containerSize' = size
  /\ canvasQueue' = Append(canvasQueue, ResizeUpdate(size))
  /\ UNCHANGED <<levelVars, canvasSize, nodePositions, pendLevels, pendPositions,
                 effects, crashed, canvasRect, debug, pendDebug, nodeScales,
                 animationFrame, timers, lifecycle, scaleRuns,
                 lastLayout, layoutLog, viewVars, clamped, pointer, dragOrigin>>

\* the number of values of the frame counter (line 301)
FrameCount == 100

\* the interval's callback making the layout effect due
TickRelayout ==
  /\ timers > 0
  /\ animationFrame' = IF lifecycle = "mounted"
                       THEN (animationFrame + 1) % FrameCount
                       ELSE animationFrame
  /\ scaleRuns' = 0
  /\ effects' = effects \cup {"layout"}
  /\ UNCHANGED <<levelVars, canvasSize, nodePositions, containerSize, canvasQueue,
                 pendLevels, pendPositions, crashed, canvasRect, debug,
                 pendDebug, nodeScales, timers, lifecycle, lastLayout, layoutLog,
                 viewVars, clamped, pointer, dragOrigin>>

\* lines 300-302: the interval's callback, setAnimationFrame(prev =>
\* (prev + 1) % 100), every 50 ms while the timer is set; a state update of
\* an unmounted component is dropped
Tick ==
  /\ timers > 0
  /\ animationFrame' = IF lifecycle = "mounted"
                       THEN (animationFrame + 1) % FrameCount
                       ELSE animationFrame
  /\ scaleRuns' = 0
  /\ UNCHANGED <<levelVars, canvasSize, nodePositions, containerSize, canvasQueue,
                 pendLevels, pendPositions, effects, crashed, canvasRect, debug,
                 pendDebug, nodeScales, timers, lifecycle, lastLayout, layoutLog,
                 viewVars, clamped, pointer, dragOrigin>>

\* lines 308-321: a run of the scale effect alone, after a render that
\* changed one of hoveredNode, selectedNode, animationFrame or nodeScales;
\* setNodeScales (line 320) passes a new object, so the render that commits
\* it makes the effect due again.  With that render folded in, the step
\* is enabled whenever no other effect is due.
ScaleEffectRun ==
  /\ lifecycle = "mounted"
  /\ ~crashed
  /\ effects = {}
  /\ scaleRuns < MaxScaleRuns
  /\ nodeScales' = ScaleEffect(nodes, 1, nodeScales, hoveredNode, selectedNode)
  /\ scaleRuns' = scaleRuns + 1
  /\ UNCHANGED <<levelVars, canvasSize, nodePositions, containerSize, canvasQueue,
                 pendLevels, pendPositions, effects, crashed, canvasRect, debug,
                 pendDebug, animationFrame, timers, lifecycle, lastLayout,
                 layoutLog, viewVars, histVars>>

\* the teardown without the cleanup of the interval effect
UnmountLeaking ==
  /\ lifecycle = "mounted"
  /\ effects = {}
  /\ lifecycle' = "unmounted"
  /\ UNCHANGED <<levelVars, canvasSize, nodePositions, containerSize, canvasQueue,
                 pendLevels, pendPositions, effects, crashed, canvasRect, debug,
                 pendDebug, nodeScales, animationFrame, timers, scaleRuns,
                 lastLayout, layoutLog, viewVars, clamped, pointer, dragOrigin>>

\* the parent removes the component: the cleanup of the interval effect
\* (line 304) clears the timer
Unmount ==
  /\ lifecycle = "mounted"
  /\ effects = {}
  /\ lifecycle' = "unmounted"
  /\ timers' = timers - 1
  /\ UNCHANGED <<levelVars, canvasSize, nodePositions, containerSize, canvasQueue,
                 pendLevels, pendPositions, effects, crashed, canvasRect, debug,
                 pendDebug, nodeScales, animationFrame, scaleRuns,
                 lastLayout, layoutLog, viewVars, clamped, pointer, dragOrigin>>

\* ------------------------------------------------------------------------
\* Layout checks: the component mounted with one input graph
\* ------------------------------------------------------------------------
\* the component constructed with its props, before its first effects run
Constructed ==
  /\ nodeLevels = <<>>
  /\ queue = <<>> /\ levels = <<>> /\ pc = "idle"
  /\ effects = MountEffects
  /\ PipeIdle
  /\ ViewIdle

Mounting ==
  /\ rootNodeId = IdList[1]
  /\ containerSize \in ContainerSizes
  /\ Constructed

InitLayout == nodes \in LayoutGraphs /\ Mounting

NextLayout == FlushEffects \/ Render

SpecLayout == InitLayout /\ [][NextLayout]_vars

\* ------------------------------------------------------------------------
\* The view: zoom, pan, selection
\*
\* A handler reads the state of the last render and its setState calls are
\* committed by the render that follows the event, before the next event.
\* ------------------------------------------------------------------------
MinScale == <<1, 2>>
MaxScale == <<2, 1>>
ZoomStep == <<1, 10>>

\* Math.min without the bound: the second argument
RMinSecond(p, q) == q

\* Math.min
RMin(p, q) == IF RLt(q, p) THEN q ELSE p

\* the bound a requested scale lies beyond
ClampedAt(s) ==
  IF RLt(MaxScale, s) THEN "max" ELSE IF RLt(s, MinScale) THEN "min" ELSE "none"

\* the scale handleWheel would set with a step of 0.2
WheelScaleFifth(s, deltaYPositive) ==
  LET delta == IF deltaYPositive THEN <<-1, 5>> ELSE <<1, 5>>
  IN  RMax(MinScale, RMin(MaxScale, RAdd(s, delta)))

\* lines 539-540: the scale handleWheel sets; deltaY > 0 zooms out
WheelScale(s, deltaYPositive) ==
  LET delta == IF deltaYPositive THEN RNeg(ZoomStep) ELSE ZoomStep
  IN  RMax(MinScale, RMin(MaxScale, RAdd(s, delta)))

\* lines 537-543: handleWheel
handleWheel(deltaYPositive) ==
  /\ ~crashed
  /\ LET delta == IF deltaYPositive THEN RNeg(ZoomStep) ELSE ZoomStep
     IN  /\ scale' = WheelScale(scale, deltaYPositive)
         /\ clamped' = ClampedAt(RAdd(scale, delta))
  /\ pointer' = [pointer EXCEPT !.kind = "wheel"]
  /\ UNCHANGED <<levelVars, pipeVars, offset, dragging, dragStart, hoveredNode,
                 selectedNode, dragOrigin>>

\* line 678: the Zoom In button
ZoomIn ==
  /\ ~crashed
  /\ scale' = RMin(MaxScale, RAdd(scale, ZoomStep))
  /\ clamped' = ClampedAt(RAdd(scale, ZoomStep))
  /\ UNCHANGED <<levelVars, pipeVars, offset, dragging, dragStart, hoveredNode,
                 selectedNode, pointer, dragOrigin>>

\* line 684: the Zoom Out button
ZoomOut ==
  /\ ~crashed
  /\ scale' = RMax(MinScale, RSub(scale, ZoomStep))
  /\ clamped' = ClampedAt(RSub(scale, ZoomStep))
  /\ UNCHANGED <<levelVars, pipeVars, offset, dragging, dragStart, hoveredNode,
                 selectedNode, pointer, dragOrigin>>

\* lines 625-629
resetView ==
  /\ ~crashed
  /\ scale' = R(1)
  /\ offset' = [x |-> R(0), y |-> R(0)]
  /\ selectedNode' = NoNode
  /\ UNCHANGED <<levelVars, pipeVars, dragging, dragStart, hoveredNode, clamped,
                 pointer, dragOrigin>>

\* lines 641-644: the offset centerOnNode sets, with the half node width
\* not scaled
CenterOffsetUnscaled(pos, s, rect) ==
  [x |-> RSub(RSub(RDiv(rect.width, R(2)), RMul(pos.x, s)),
              RDiv(R(NODE_WIDTH), R(2))),
   y |-> RSub(RSub(RDiv(rect.height, R(2)), RMul(pos.y, s)),
              RMul(RDiv(R(NODE_HEIGHT), R(2)), s))]

\* lines 641-644: the offset centerOnNode sets
CenterOffset(pos, s, rect) ==
  [x |-> RSub(RSub(RDiv(rect.width, R(2)), RMul(pos.x, s)),
              RMul(RDiv(R(NODE_WIDTH), R(2)), s)),
   y |-> RSub(RSub(RDiv(rect.height, R(2)), RMul(pos.y, s)),
              RMul(RDiv(R(NODE_HEIGHT), R(2)), s))]

\* lines 632-647
centerOnNode(nodeId) ==
  /\ ~crashed
  /\ UNCHANGED <<levelVars, pipeVars, scale, dragging, dragStart, hoveredNode, clamped,
                 pointer, dragOrigin>>
  /\ IF ~PosHas(nodePositions, nodeId)
     THEN UNCHANGED <<offset, selectedNode>>
     ELSE /\ offset' = CenterOffset(PosGet(nodePositions, nodeId), scale, canvasRect)
          /\ selectedNode' = nodeId

\* lines 650-652
centerOnRoot == centerOnNode(rootNodeId)

\* left and top of the canvas element's bounding rectangle (lines 550, 590)
CanvasLeft == 16
CanvasTop == 120

\* pointer locations (clientX, clientY) of the mouse events
Pointers == {[x |-> R(776), y |-> R(230)], [x |-> R(116), y |-> R(720)]}

\* lines 551-552 and 591-592: the world point under the pointer
World(p) ==
  [x |-> RDiv(RSub(RSub(p.x, R(CanvasLeft)), offset.x), scale),
   y |-> RDiv(RSub(RSub(p.y, R(CanvasTop)), offset.y), scale)]

\* the condition of the hit test with the right and bottom edges excluded
InsideHalfOpen(pos, w) ==
  /\ RLe(pos.x, w.x) /\ RLt(w.x, RAdd(pos.x, R(NODE_WIDTH)))
  /\ RLe(pos.y, w.y) /\ RLt(w.y, RAdd(pos.y, R(NODE_HEIGHT)))

\* lines 557-563 and 597-603: the condition of the hit test
Inside(pos, w) ==
  /\ RLe(pos.x, w.x) /\ RLe(w.x, RAdd(pos.x, R(NODE_WIDTH)))
  /\ RLe(pos.y, w.y) /\ RLe(w.y, RAdd(pos.y, R(NODE_HEIGHT)))

\* the hit test stopping at the first key whose rectangle holds the point
HitTestFirst(ps, w) ==
  LET hits == {i \in 1..Len(ps) : Inside(ps[i], w)}
  IN  IF hits = {} THEN NoNode
      ELSE ps[CHOOSE i \in hits : \A j \in hits : i <= j].id

\* lines 555-564 and 595-604: the last key of nodePositions whose rectangle
\* holds the point, or null
HitTest(ps, w) ==
  LET hits == {i \in 1..Len(ps) : Inside(ps[i], w)}
  IN  IF hits = {} THEN NoNode
      ELSE ps[CHOOSE i \in hits : \A j \in hits : j <= i].id

\* handleMouseDown selecting the clicked node also when it is selected
handleMouseDownNoToggle(p) ==
  /\ ~crashed
  /\ LET clickedNode == HitTest(nodePositions, World(p))
     IN  IF clickedNode # NoNode
         THEN /\ selectedNode' = clickedNode
              /\ UNCHANGED <<dragging, dragStart, dragOrigin>>
         ELSE /\ dragging' = TRUE
              /\ dragStart' = [x |-> RSub(p.x, offset.x), y |-> RSub(p.y, offset.y)]
              /\ dragOrigin' = [p |-> p, o |-> offset]
              /\ UNCHANGED selectedNode
  /\ pointer' = Mouse(p, "down")
  /\ UNCHANGED <<levelVars, pipeVars, scale, offset, hoveredNode, clamped>>

\* lines 546-574
handleMouseDown(p) ==
  /\ ~crashed
  /\ LET clickedNode == HitTest(nodePositions, World(p))
     IN  IF clickedNode # NoNode
         THEN /\ selectedNode' = IF selectedNode = clickedNode THEN NoNode ELSE clickedNode
              /\ UNCHANGED <<dragging, dragStart, dragOrigin>>
         ELSE /\ dragging' = TRUE
              /\ dragStart' = [x |-> RSub(p.x, offset.x), y |-> RSub(p.y, offset.y)]
              /\ dragOrigin' = [p |-> p, o |-> offset]
              /\ UNCHANGED selectedNode
  /\ pointer' = Mouse(p, "down")
  /\ UNCHANGED <<levelVars, pipeVars, scale, offset, hoveredNode, clamped>>

\* handleMouseMove adding the pointer's distance from the anchor to the offset
handleMouseMoveAdding(p) ==
  /\ ~crashed
  /\ offset' = IF dragging
               THEN [x |-> RAdd(offset.x, RSub(p.x, dragStart.x)),
                     y |-> RAdd(offset.y, RSub(p.y, dragStart.y))]
               ELSE offset
  /\ hoveredNode' = HitTest(nodePositions, World(p))
  /\ pointer' = Mouse(p, "move")
  /\ UNCHANGED <<levelVars, pipeVars, scale, dragging, dragStart, selectedNode, clamped,
                 dragOrigin>>

\* lines 577-611: the hit test reads the offset of the last render
handleMouseMove(p) ==
  /\ ~crashed
  /\ offset' = IF dragging
               THEN [x |-> RSub(p.x, dragStart.x), y |-> RSub(p.y, dragStart.y)]
               ELSE offset
  /\ hoveredNode' = HitTest(nodePositions, World(p))
  /\ pointer' = Mouse(p, "move")
  /\ UNCHANGED <<levelVars, pipeVars, scale, dragging, dragStart, selectedNode, clamped,
                 dragOrigin>>

\* handleMouseUp leaving the dragging state as it is
handleMouseUpKeepsDrag ==
  /\ ~crashed
  /\ pointer' = [pointer EXCEPT !.kind = "up"]
  /\ UNCHANGED <<levelVars, pipeVars, viewVars, clamped, dragOrigin>>

\* lines 614-616
handleMouseUp ==
  /\ ~crashed
  /\ dragging' = FALSE
  /\ pointer' = [pointer EXCEPT !.kind = "up"]
  /\ UNCHANGED <<levelVars, pipeVars, scale, offset, dragStart, hoveredNode,
                 selectedNode, clamped, dragOrigin>>

\* lines 619-622
handleMouseLeave ==
  /\ ~crashed
  /\ dragging' = FALSE
  /\ hoveredNode' = NoNode
  /\ pointer' = [pointer EXCEPT !.kind = "leave"]
  /\ UNCHANGED <<levelVars, pipeVars, scale, offset, dragStart, selectedNode, clamped,
                 dragOrigin>>

\* ------------------------------------------------------------------------
\* The component: mounted with a graph, then events in any order
\* ------------------------------------------------------------------------
\* the graphs the parent passes:  r -> a, b  and  r -> a -> r
ViewGraphs == {TreeNodes(<<0, 1, 1>>), AddEdge(TreeNodes(<<0, 1>>), "a", "r")}

Init == nodes \in ViewGraphs /\ Mounting

\* zoom requests are not counted
Next ==
  \/ FlushEffects
  \/ Render
  \/ \E g \in ViewGraphs : Counted /\ LoadGraph(g)
  \/ \E size \in ContainerSizes : Counted /\ Resize(size)
  \/ \E d \in BOOLEAN : handleWheel(d) /\ UNCHANGED events
  \/ ZoomIn /\ UNCHANGED events
  \/ ZoomOut /\ UNCHANGED events
  \/ Counted /\ resetView
  \/ Counted /\ centerOnRoot
  \/ \E p \in Pointers : Counted /\ handleMouseDown(p)
  \/ \E p \in Pointers : Counted /\ handleMouseMove(p)
  \/ Counted /\ handleMouseUp
  \/ Counted /\ handleMouseLeave

Spec == Init /\ [][Next]_vars

\* ------------------------------------------------------------------------
\* Loads: the component mounted with any props, then loads of other props
\* ------------------------------------------------------------------------
\* root ids the parent passes: the first id, the second id (a key of some
\* of the graphs only), and none
LoadRoots == {IdList[1], IdList[2], ""}
\* nodes objects the parent passes: none, and the trees of up to 3 nodes
LoadNodes == {NoNodes} \cup TreesUpTo(3)

LoadCounted == events < MaxLoads /\ events' = events + 1

InitLoad ==
  /\ rootNodeId \in LoadRoots
  /\ nodes \in LoadNodes
  /\ containerSize \in ContainerSizes
  /\ Constructed

NextLoad ==
  \/ FlushEffects
  \/ Render
  \/ \E root \in LoadRoots, g \in LoadNodes : LoadCounted /\ LoadProps(root, g)

SpecLoad == InitLoad /\ [][NextLoad]_vars

\* ------------------------------------------------------------------------
\* Pointer: the component mounted with a wide level, then mouse and wheel
\* events in any order
\* ------------------------------------------------------------------------
\* the root with eight children: after the five overlap passes the
\* rectangles of neighbouring children still overlap
PointerGraph == TreeNodes(<<0, 1, 1, 1, 1, 1, 1, 1, 1>>)
\* a container wide enough for the layout not to grow the canvas
PointerContainer == [width |-> R(1800), height |-> R(1300)]

\* Pointer locations.  With the canvas 1800 wide, offset (0, 0) and scale 1
\* the root's rectangle is [900, 1080] x [100, 180] in world coordinates:
\* its top left corner, its bottom right corner, a point one pixel right of
\* it, and a point in the rectangles of the children c and d.
EdgePointers ==
  {[x |-> R(CanvasLeft + 900), y |-> R(CanvasTop + 100)],
   [x |-> R(CanvasLeft + 1080), y |-> R(CanvasTop + 180)],
   [x |-> R(CanvasLeft + 1081), y |-> R(CanvasTop + 140)],
   [x |-> R(CanvasLeft + 810), y |-> R(CanvasTop + 300)]}

PointerCounted == events < MaxPointerEvents /\ events' = events + 1

InitPointer ==
  /\ rootNodeId = IdList[1]
  /\ nodes = PointerGraph
  /\ containerSize = PointerContainer
  /\ Constructed

NextPointer ==
  \/ FlushEffects
  \/ Render
  \/ \E d \in BOOLEAN : PointerCounted /\ handleWheel(d)
  \/ \E p \in EdgePointers : PointerCounted /\ handleMouseDown(p)
  \/ \E p \in EdgePointers : PointerCounted /\ handleMouseMove(p)
  \/ PointerCounted /\ handleMouseUp
  \/ PointerCounted /\ handleMouseLeave

SpecPointer == InitPointer /\ [][NextPointer]_vars

\* ------------------------------------------------------------------------
\* Animation checks: the component mounted with  r -> a,  the timer
\* ticking, the pointer moving and clicking over r, over a and over empty
\* canvas, and the teardown
\* ------------------------------------------------------------------------
AnimGraph == TreeNodes(<<0, 1>>)
AnimPointers ==
  {[x |-> R(CanvasLeft + 800), y |-> R(CanvasTop + 140)],
   [x |-> R(CanvasLeft + 800), y |-> R(CanvasTop + 300)],
   [x |-> R(CanvasLeft + 100), y |-> R(CanvasTop + 700)]}

AnimCounted == events < MaxAnimEvents /\ events' = events + 1
\* the component is still in the document
Alive == lifecycle # "unmounted"

InitAnim == nodes = AnimGraph /\ Mounting

NextAnim ==
  \/ Alive /\ FlushEffects
  \/ Alive /\ Render
  \/ Tick /\ UNCHANGED events
  \/ ScaleEffectRun
  \/ Unmount /\ UNCHANGED events
  \/ \E p \in AnimPointers : Alive /\ AnimCounted /\ handleMouseDown(p)
  \/ \E p \in AnimPointers : Alive /\ AnimCounted /\ handleMouseMove(p)

SpecAnim == InitAnim /\ [][NextAnim]_vars

\* ------------------------------------------------------------------------
\* Every kind of event: the component mounted with  r -> a,  then loads,
\* resizes, timer ticks, zoom, view and mouse events in any order
\* ------------------------------------------------------------------------
MixedGraphs == {AnimGraph, TreeNodes(<<0, 1, 1>>)}
MixedCounted == events < MaxMixedEvents /\ events' = events + 1

InitMixed == nodes = AnimGraph /\ Mounting

NextMixed ==
  \/ FlushEffects
  \/ Render
  \/ \E g \in MixedGraphs : MixedCounted /\ LoadGraph(g)
  \/ \E size \in ContainerSizes : MixedCounted /\ Resize(size)
  \/ MixedCounted /\ Tick
  \/ \E d \in BOOLEAN : MixedCounted /\ handleWheel(d)
  \/ MixedCounted /\ ZoomIn
  \/ MixedCounted /\ ZoomOut
  \/ MixedCounted /\ resetView
  \/ MixedCounted /\ centerOnRoot
  \/ \E p \in AnimPointers : MixedCounted /\ handleMouseDown(p)
  \/ \E p \in AnimPointers : MixedCounted /\ handleMouseMove(p)
  \/ MixedCounted /\ handleMouseUp
  \/ MixedCounted /\ handleMouseLeave

SpecMixed == InitMixed /\ [][NextMixed]_vars

\* ------------------------------------------------------------------------
\* The growth of the canvas: a mount with a valid tree and nothing but the
\* effects and the renders after it, the canvas size in floating-point
\* arithmetic.  Effects that are due run and a queued update is rendered:
\* weak fairness of both steps, the one of the effects written with their
\* enabling condition EffectsDue.
\* ------------------------------------------------------------------------
GrowGraphs == TreesUpTo(MaxGrowNodes)

InitGrow == nodes \in GrowGraphs /\ Mounting

NextGrow == FlushEffectsFloat \/ Render

SpecGrow == InitGrow /\ [][NextGrow]_vars

SpecGrowFair ==
  /\ SpecGrow
  /\ WF_vars(Render)
  /\ ([]<>(~EffectsDue(SignificandBits)) \/ []<><<FlushEffectsFloat>>_vars)

\* ------------------------------------------------------------------------
\* Reference notions for the level claims
\* ------------------------------------------------------------------------
KeySet(ns) == SeqToSet(Keys(ns))
Succ(ns, id) == IF HasNode(ns, id) THEN SeqToSet(ChildrenOf(ns, id)) ELSE {}

\* the ids at distance <= k from the ids of S, for growing k, until closed
RECURSIVE Closure(_, _)
Closure(ns, S) ==
  LET T == S \cup UNION {Succ(ns, x) : x \in S}
  IN  IF T = S THEN S ELSE Closure(ns, T)
Reach(ns, root) == Closure(ns, {root})

\* shortest-path distance from the ids of `frontier` (at distance d) to id
RECURSIVE DistFrom(_, _, _, _, _)
DistFrom(ns, frontier, seen, d, id) ==
  IF id \in frontier THEN d
  ELSE IF frontier = {} THEN -1
  ELSE LET nxt == (UNION {Succ(ns, x) : x \in frontier}) \ (seen \cup frontier)
       IN  DistFrom(ns, nxt, seen \cup frontier, d + 1, id)
Dist(ns, root, id) == DistFrom(ns, {root}, {}, 0, id)

Listers(ns, c) == {p \in KeySet(ns) : c \in Succ(ns, p)}
\* a tree rooted at root: the root is a key and nobody's child, every other
\* reachable id is listed as a child by exactly one node
IsTree(ns, root) ==
  /\ HasNode(ns, root)
  /\ Listers(ns, root) = {}
  /\ \A c \in Reach(ns, root) \ {root} : Cardinality(Listers(ns, c)) = 1
TreeParent(ns, c) == CHOOSE p \in Listers(ns, c) : TRUE
\* some reachable node is reachable from one of its own children
HasCycle(ns, root) == \E c \in Reach(ns, root) : c \in Closure(ns, Succ(ns, c))

\* C1: on a tree rooted at rootNodeId the published levels give the root
\* level 0 and every other reachable node the level of its parent plus 1.
C1_TreeLevels ==
  (pc = "done" /\ IsTree(nodes, rootNodeId)) =>
    /\ LevelsHas(nodeLevels, rootNodeId) /\ LevelsGet(nodeLevels, rootNodeId) = 0
    /\ \A c \in Reach(nodes, rootNodeId) \ {rootNodeId} :
         /\ LevelsHas(nodeLevels, c)
         /\ LevelsGet(nodeLevels, c) =
              LevelsGet(nodeLevels, TreeParent(nodes, c)) + 1
\* a tree of depth at least 2 has been levelled
C1_Witness ==
  /\ pc = "done" /\ IsTree(nodes, rootNodeId)
  /\ \E i \in 1..Len(nodeLevels) : nodeLevels[i].level = 2

\* C2: for every graph whose root is a key, also with several parents or
\* back edges, the published level of each reachable node is its BFS
\* distance from the root (the original claim; the code violates it).
C2_LevelsAreBfsDistance ==
  pc = "done" =>
    \A c \in Reach(nodes, rootNodeId) :
      LevelsHas(nodeLevels, c) /\
      LevelsGet(nodeLevels, c) = Dist(nodes, rootNodeId, c)

\* C3: the level effect terminates on every finite graph, cycles included:
\* the queue empties and the level map is published.
C3_LevelTerminates == <>(pc = "done")
\* the levels of a graph with a cycle have been published
C3_Witness == pc = "done" /\ HasCycle(nodes, rootNodeId)

\* ------------------------------------------------------------------------
\* Reference notions for the layout, canvas and view claims
\* ------------------------------------------------------------------------
REq(p, q) == ~RLt(p, q) /\ ~RLt(q, p)
\* the distance nodeWidth + gap
MinApart == R(NODE_WIDTH + OverlapGap)
\* a layout pass ran to its end
PassCompleted == lastLayout.ran /\ ~lastLayout.threw
\* the level a layout pass was given for the i-th key of its level map
PassLevel(i) == lastLayout.lv[i].level
\* the i-th and j-th keys of the level map are two positioned nodes of one
\* level other than level 0
SameLevelPair(i, j) ==
  /\ i # j
  /\ PassLevel(i) = PassLevel(j)
  /\ PassLevel(i) # 0
  /\ PosHas(lastLayout.pos, lastLayout.lv[i].id)
  /\ PosHas(lastLayout.pos, lastLayout.lv[j].id)
Apart(i, j) ==
  LET xi == PosGet(lastLayout.pos, lastLayout.lv[i].id).x
      xj == PosGet(lastLayout.pos, lastLayout.lv[j].id).x
  IN  RLe(RAdd(xi, MinApart), xj) \/ RLe(RAdd(xj, MinApart), xi)
\* screen image of a node's centre under an offset and a scale
ScreenCenter(pos, off, s) ==
  [x |-> RAdd(off.x, RMul(RAdd(pos.x, RDiv(R(NODE_WIDTH), R(2))), s)),
   y |-> RAdd(off.y, RMul(RAdd(pos.y, RDiv(R(NODE_HEIGHT), R(2))), s))]
\* centre of the canvas element's bounding rectangle, the surface the view
\* is drawn on
ViewportCenter ==
  [x |-> RDiv(canvasRect.width, R(2)), y |-> RDiv(canvasRect.height, R(2))]
SamePoint(a, b) == REq(a.x, b.x) /\ REq(a.y, b.y)
\* ids centerOnNode may be called with: the keys of the graph and an id
\* that has no position
CenterIds == KeySet(nodes) \cup {DanglingId}

\* C4: after every completed layout pass on a graph whose root id is a key
\* of nodes, the stored position of the root is (W/2, 100), W the canvas
\* width the pass was given: no later step of the pass moved the root.
C4_RootPosition ==
  (PassCompleted /\ HasNode(nodes, rootNodeId)) =>
    /\ PosHas(lastLayout.pos, rootNodeId)
    /\ REq(PosGet(lastLayout.pos, rootNodeId).x, RDiv(lastLayout.W, R(2)))
    /\ REq(PosGet(lastLayout.pos, rootNodeId).y, R(TopMargin))

\* C5: when the overlap loop ended on a pass that changed nothing, any two
\* positioned nodes of one level other than level 0 have final x
\* coordinates at least nodeWidth + gap = 200 apart.
C5_SettledLevelsApart ==
  (PassCompleted /\ lastLayout.settled) =>
    \A i, j \in 1..Len(lastLayout.lv) : SameLevelPair(i, j) => Apart(i, j)

\* a pass that moved nodes apart and then ended on a pass without a change
C5_Witness ==
  /\ PassCompleted /\ lastLayout.settled /\ lastLayout.passes >= 2
  /\ \E i, j \in 1..Len(lastLayout.lv) : SameLevelPair(i, j)

\* C6: the canvas size a layout pass writes is at least the largest final
\* x + 180 plus 200 in width and the largest final y + 80 plus 200 in
\* height, over the positions stored after overlap resolution.
C6_CanvasHoldsNodes ==
  PassCompleted =>
    \A i \in 1..Len(lastLayout.pos) :
      /\ RLe(RAdd(RAdd(lastLayout.pos[i].x, R(NODE_WIDTH)), R(CanvasMargin)),
             lastLayout.width)
      /\ RLe(RAdd(RAdd(lastLayout.pos[i].y, R(NODE_HEIGHT)), R(CanvasMargin)),
             lastLayout.height)

\* C7: whatever the order of layout passes, container resizes and graph
\* loads, a step never decreases the canvas width or the canvas height,
\* also when a resize update is queued between the render a layout pass
\* read and that pass's write.
C7_CanvasNeverShrinks ==
  [][/\ RLe(canvasSize.width, canvasSize'.width)
     /\ RLe(canvasSize.height, canvasSize'.height)]_vars

\* a resize update queued after the render whose size the layout pass read,
\* and before the smaller size that pass wrote
C7_Witness ==
  /\ nodeLevels # <<>>
  /\ Len(canvasQueue) = 2
  /\ canvasQueue[1].kind = "max" /\ canvasQueue[2].kind = "set"
  /\ RLt(canvasQueue[2].width, canvasQueue[1].width)

C9_ScaleClamped ==
  [][/\ RLe(MinScale, scale) /\ RLe(scale, MaxScale)
     /\ RLe(MinScale, scale') /\ RLe(scale', MaxScale)
     /\ (scale = MaxScale /\ (ZoomIn \/ handleWheel(FALSE))) => scale' = MaxScale
     /\ (scale = MinScale /\ (ZoomOut \/ handleWheel(TRUE))) => scale' = MinScale]_vars

\* a zoom-in was requested at scale 2.0
C9_Witness == clamped = "max" /\ scale = MaxScale

OnCanvas(p) == [x |-> RSub(p.x, R(CanvasLeft)), y |-> RSub(p.y, R(CanvasTop))]
\* the screen image offset + world * scale of a world coordinate
ToScreen(c, off, s) == RAdd(off, RMul(c, s))
\* the screen image of the node's base rectangle 180 x 80 holds the point q,
\* edges included
BaseRectHolds(pos, q) ==
  /\ RLe(ToScreen(pos.x, offset.x, scale), q.x)
  /\ RLe(q.x, ToScreen(RAdd(pos.x, R(NODE_WIDTH)), offset.x, scale))
  /\ RLe(ToScreen(pos.y, offset.y, scale), q.y)
  /\ RLe(q.y, ToScreen(RAdd(pos.y, R(NODE_HEIGHT)), offset.y, scale))
\* indices in the position map of the nodes under the pointer
HitIndices(p) ==
  {i \in 1..Len(nodePositions) : BaseRectHolds(nodePositions[i], OnCanvas(p))}
HitIds(p) == {nodePositions[i].id : i \in HitIndices(p)}
\* the last node under the pointer in the order of the position map
LastHit(p) ==
  nodePositions[CHOOSE i \in HitIndices(p) : \A j \in HitIndices(p) : j <= i].id
\* the node a pointer-down step toggled, none when the selection is unchanged
DownTarget ==
  IF selectedNode' = selectedNode THEN NoNode
  ELSE IF selectedNode' = NoNode THEN selectedNode ELSE selectedNode'
\* the pointer is on the right edge of the root's rectangle
OnRightEdge(p) ==
  /\ PosHas(nodePositions, rootNodeId)
  /\ REq(World(p).x, RAdd(PosGet(nodePositions, rootNodeId).x, R(NODE_WIDTH)))
  /\ rootNodeId \in HitIds(p)

\* C11: pointer-down and pointer-move report a hit exactly when the
\* pointer is in the base rectangle [x, x + 180] x [y, y + 80] of a
\* positioned node, taken to the screen by the offset and the scale, edges
\* included; the node they report is one of those; the node scales play no
\* part in it.
C11_HitTestEdges ==
  [][\A p \in EdgePointers :
       /\ handleMouseMove(p) =>
            IF HitIds(p) = {} THEN hoveredNode' = NoNode
            ELSE hoveredNode' \in HitIds(p)
       /\ handleMouseDown(p) =>
            IF HitIds(p) = {} THEN DownTarget = NoNode
            ELSE DownTarget \in HitIds(p)]_vars

\* a pointer-move on the right edge of the root's rectangle reported the
\* root, the scale of the root being NaN
C11_Witness ==
  /\ pointer.kind = "move" /\ ~dragging
  /\ hoveredNode = rootNodeId
  /\ OnRightEdge(pointer)
  /\ ScalesGet(nodeScales, rootNodeId) = NaN

\* ------------------------------------------------------------------------
\* Reference notions for the load claims
\* ------------------------------------------------------------------------
\* the validation effect has run on the current props and its result is
\* committed
Validated == ~crashed /\ "validate" \notin effects /\ ~pendDebug.set
\* the root id is not empty and is no key of the nodes object
BadRoot(root, ns) == root # "" /\ ~NodesAbsent(ns) /\ ~HasNode(ns, root)

\* once validated, props with such a root id show the root-not-found error
RootErrorShown == (BadRoot(rootNodeId, nodes) /\ Validated) => debug = RootNotFound

\* C12: with a root id that is not empty and no key of nodes, the debug
\* state becomes the root-not-found error, and no step computes levels or
\* positions: nothing is queued for nodeLevels or nodePositions and no
\* layout pass is recorded.
C12_RootNotFound ==
  [][/\ RootErrorShown /\ RootErrorShown'
     /\ BadRoot(rootNodeId', nodes') =>
          /\ ~pendLevels'.set /\ ~pendPositions'.set
          /\ lastLayout' = lastLayout /\ layoutLog' = layoutLog
          /\ ~crashed']_vars

\* a graph was loaded whose root id is no key, after a graph that was laid
\* out, and the error is shown
C12_Witness ==
  /\ BadRoot(rootNodeId, nodes) /\ Validated
  /\ debug = RootNotFound
  /\ events = 1 /\ nodePositions # <<>>

\* C13: a load without a root id ends in the missing-root error and a load
\* without a nodes object in the missing-nodes error, shown inline: no
\* effect of the load throws (the original claim; the code violates it).
C13_MissingPropsInline ==
  /\ (rootNodeId = "" \/ NodesAbsent(nodes)) => ~crashed
  /\ (Validated /\ rootNodeId = "") => debug = MissingRoot
  /\ (Validated /\ rootNodeId # "" /\ NodesAbsent(nodes)) => debug = MissingNodeMap

\* ------------------------------------------------------------------------
\* Reference notions for the layout claims on unreachable nodes and on the
\* root with two leaves
\* ------------------------------------------------------------------------
\* the nodes object without the nodes the root does not reach
Prune(ns, root) == SelectSeq(ns, LAMBDA n : n.id \in Reach(ns, root))
LevelIds(lv) == {lv[i].id : i \in 1..Len(lv)}
PosIds(ps) == {ps[i].id : i \in 1..Len(ps)}

\* C14: when the nodes the root reaches form a tree, nodes the root does
\* not reach are in no level map and no position map, and no layout pass
\* throws, also when such a node lists a reachable node (the original
\* claim; the code violates it).
C14_UnreachableHarmless ==
  (HasNode(nodes, rootNodeId) /\ IsTree(Prune(nodes, rootNodeId), rootNodeId)) =>
    /\ LevelIds(nodeLevels) \subseteq Reach(nodes, rootNodeId)
    /\ PosIds(nodePositions) \subseteq Reach(nodes, rootNodeId)
    /\ lastLayout.ran => PosIds(lastLayout.pos) \subseteq Reach(nodes, rootNodeId)
    /\ ~crashed

\* the graph of a pass is a root with exactly two children, both leaves
TwoLeaves(ns, root) ==
  /\ Len(ns) = 3
  /\ HasNode(ns, root)
  /\ Len(ChildrenOf(ns, root)) = 2
  /\ ChildrenOf(ns, root)[1] # ChildrenOf(ns, root)[2]
  /\ \A k \in 1..2 :
       /\ ChildrenOf(ns, root)[k] # root
       /\ HasNode(ns, ChildrenOf(ns, root)[k])
       /\ ChildrenOf(ns, ChildrenOf(ns, root)[k]) = <<>>

\* C15: on a root A with exactly two children B and C, both leaves, every
\* layout pass, whatever its canvas width, has levels 0, 1, 1 and stores
\* x_A - x_B = x_C - x_A with B and C at least 200 apart.
C15_TwoLeavesSymmetric ==
  (PassCompleted /\ TwoLeaves(lastLayout.nodes, lastLayout.root)) =>
    LET A  == lastLayout.root
        B  == ChildrenOf(lastLayout.nodes, A)[1]
        C  == ChildrenOf(lastLayout.nodes, A)[2]
    IN  /\ LevelsHas(lastLayout.lv, A) /\ LevelsGet(lastLayout.lv, A) = 0
        /\ LevelsHas(lastLayout.lv, B) /\ LevelsGet(lastLayout.lv, B) = 1
        /\ LevelsHas(lastLayout.lv, C) /\ LevelsGet(lastLayout.lv, C) = 1
        /\ PosHas(lastLayout.pos, A) /\ PosHas(lastLayout.pos, B)
        /\ PosHas(lastLayout.pos, C)
        /\ REq(RSub(PosGet(lastLayout.pos, A).x, PosGet(lastLayout.pos, B).x),
               RSub(PosGet(lastLayout.pos, C).x, PosGet(lastLayout.pos, A).x))
        /\ RLe(RAdd(PosGet(lastLayout.pos, B).x, MinApart),
               PosGet(lastLayout.pos, C).x)

\* the third pass on a root with two leaves, the canvas grown twice
C15_Witness ==
  /\ PassCompleted /\ TwoLeaves(lastLayout.nodes, lastLayout.root)
  /\ RLt(R(1550), lastLayout.W)
  /\ lastLayout.W # R(1600)

\* ------------------------------------------------------------------------
\* The pointer claims
\* ------------------------------------------------------------------------
\* C16: a pointer-down on a node toggles the selection (selects the node,
\* or clears the selection when the node was selected) and leaves dragging,
\* dragStart and offset alone; a pointer-down on no node sets dragging with
\* dragStart = pointer location - offset and leaves the selection alone.
C16_PointerDown ==
  [][\A p \in EdgePointers :
       handleMouseDown(p) =>
         IF HitIds(p) # {}
         THEN /\ selectedNode' = IF selectedNode = LastHit(p) THEN NoNode
                                 ELSE LastHit(p)
              /\ UNCHANGED <<dragging, dragStart, offset>>
         ELSE /\ dragging' = TRUE
              /\ SamePoint(dragStart', [x |-> RSub(p.x, offset.x),
                                        y |-> RSub(p.y, offset.y)])
              /\ UNCHANGED selectedNode]_vars

\* a second pointer-down on the selected root cleared the selection
C16_Witness ==
  /\ pointer.kind = "down" /\ ~dragging
  /\ rootNodeId \in HitIds(pointer)
  /\ selectedNode = NoNode
  /\ events >= 2

\* C17: while dragging, after a pointer-move to p the offset is
\* o0 + (p - p0), p0 and o0 the pointer location and the offset at the
\* pointer-down that started the drag; at p = p0 the offset is o0.
C17_DragOffset ==
  (dragging /\ pointer.kind = "move") =>
    /\ SamePoint(offset,
                 [x |-> RAdd(dragOrigin.o.x, RSub(pointer.x, dragOrigin.p.x)),
                  y |-> RAdd(dragOrigin.o.y, RSub(pointer.y, dragOrigin.p.y))])
    /\ (pointer.x = dragOrigin.p.x /\ pointer.y = dragOrigin.p.y)
         => offset = dragOrigin.o

\* in a second drag, started at an offset other than (0, 0), a pointer-move
\* to the location the drag started at left the offset the drag started with
C17_Witness ==
  /\ dragging /\ pointer.kind = "move"
  /\ pointer.x = dragOrigin.p.x /\ pointer.y = dragOrigin.p.y
  /\ dragOrigin.o # [x |-> R(0), y |-> R(0)]
  /\ offset = dragOrigin.o

\* C18: a pointer-up or a pointer-leave ends the drag and changes neither
\* the selection nor the scale nor the offset, a pointer-leave also clears
\* the hovered node; while not dragging a pointer-move leaves the offset
\* alone, and only a pointer-down on no node starts a drag.
C18_DragEnds ==
  [][/\ handleMouseUp => (~dragging' /\ UNCHANGED <<selectedNode, scale, offset>>)
     /\ handleMouseLeave =>
          (~dragging' /\ hoveredNode' = NoNode
           /\ UNCHANGED <<selectedNode, scale, offset>>)
     /\ \A p \in EdgePointers : (handleMouseMove(p) /\ ~dragging) => offset' = offset
     /\ (~dragging /\ dragging') =>
          \E p \in EdgePointers : handleMouseDown(p) /\ HitIds(p) = {}]_vars

\* a drag moved the view and ended, and a later pointer-move left the
\* offset where the drag put it
C18_Witness ==
  /\ ~dragging /\ pointer.kind = "move"
  /\ dragOrigin # NoDrag
  /\ offset # dragOrigin.o

\* C19: a pointer-move while dragging changes the offset only and leaves
\* the hovered node, the selection and the scale alone; a pointer-move
\* while idle leaves the offset alone and sets the hovered node to the
\* result of the hit test (the original claim; the code violates it).
C19_MoveByState ==
  [][\A p \in EdgePointers :
       handleMouseMove(p) =>
         IF dragging
         THEN UNCHANGED <<hoveredNode, selectedNode, scale>>
         ELSE /\ offset' = offset
              /\ hoveredNode' = IF HitIds(p) = {} THEN NoNode ELSE LastHit(p)]_vars

\* C20: when the pointer is in the base rectangles of several positioned
\* nodes, pointer-down and pointer-move both resolve to the last of them in
\* the order of the position map.
C20_LastHitWins ==
  [][\A p \in EdgePointers :
       Cardinality(HitIds(p)) >= 2 =>
         /\ handleMouseMove(p) => hoveredNode' = LastHit(p)
         /\ handleMouseDown(p) => DownTarget = LastHit(p)]_vars

\* a pointer-move in the rectangles of two children reported the later one
C20_Witness ==
  /\ pointer.kind = "move" /\ ~dragging
  /\ Cardinality(HitIds(pointer)) >= 2
  /\ hoveredNode = LastHit(pointer)


\* ------------------------------------------------------------------------
\* Reference notions for the wheel
\* ------------------------------------------------------------------------
\* the number of wheel events in one direction the n-step statement is
\* checked for
MaxWheelRun == 4

\* the scale one step of 0.1 away, saturated to [0.5, 2.0]
OneStep(s, deltaYPositive) ==
  IF deltaYPositive
  THEN (IF RLt(RSub(s, <<1, 10>>), <<1, 2>>) THEN <<1, 2>> ELSE RSub(s, <<1, 10>>))
  ELSE (IF RLt(<<2, 1>>, RAdd(s, <<1, 10>>)) THEN <<2, 1>> ELSE RAdd(s, <<1, 10>>))

\* the scale after n wheel events in one direction, each read from the
\* scale the event before it set
RECURSIVE WheelTimes(_, _, _)
WheelTimes(s, deltaYPositive, n) ==
  IF n = 0 THEN s ELSE WheelTimes(WheelScale(s, deltaYPositive), deltaYPositive, n - 1)

SelectedFirst(id, hovered, selected) ==
  IF id = selected THEN <<11, 10>>
  ELSE IF id = hovered THEN <<21, 20>>
  ELSE <<1, 1>>

\* a step that runs the scale effect
ScaleEffectStep == ScaleEffectRun \/ FlushEffects

\* v is a number in [1.00, 1.10]
InScaleRange(v) == v # NaN /\ RLe(<<1, 1>>, v) /\ RLe(v, <<11, 10>>)

\* C22: at every run of the scale effect the target of a node is 1.10 when
\* it is the selected node, hovered or not, otherwise 1.05 when it is the
\* hovered node, otherwise 1.00.
C22_TargetScale ==
  [][ScaleEffectStep =>
       \A id \in KeySet(nodes) :
         TargetScale(id, hoveredNode, selectedNode)
           = SelectedFirst(id, hoveredNode, selectedNode)]_vars

\* C23: once the effects of the mount have run, every key of nodes has a
\* stored scale that is a number in [1.00, 1.10], and a run of the scale
\* effect replaces it by scale + (target - scale) * 0.1, which is never
\* beyond the target.
C23_StoredScales ==
  /\ []((lifecycle = "mounted" /\ ~crashed) =>
          \A id \in KeySet(nodes) :
            ScalesHas(nodeScales, id) /\ InScaleRange(ScalesGet(nodeScales, id)))
  /\ [][ScaleEffectRun =>
          \A id \in KeySet(nodes) :
            LET v == ScalesGet(nodeScales, id)
                t == TargetScale(id, hoveredNode, selectedNode)
            IN  /\ ScalesGet(nodeScales', id)
                     = RAdd(v, RMul(RSub(t, v), <<1, 10>>))
                /\ RLe(ScalesGet(nodeScales', id), t)]_vars

\* C24: between two consecutive timer ticks, and between the mount and the
\* first tick, the scale effect runs at most once.
C24_ScalesOnTickOnly == scaleRuns <= 1

\* C25: one interval timer is set exactly while the component is mounted;
\* the frame counter stays in 0..99, changes by timer ticks only, by 1
\* modulo 100 per tick, and neither it nor the node scales change after the
\* teardown.
C25_OneTimer ==
  /\ [](/\ lifecycle = "mounted" => timers = 1
        /\ lifecycle # "mounted" => timers = 0
        /\ animationFrame \in 0..99)
  /\ [][/\ Tick => /\ lifecycle = "mounted"
                    /\ animationFrame'
                         = IF animationFrame = 99 THEN 0 ELSE animationFrame + 1
        /\ animationFrame' # animationFrame => Tick
        /\ lifecycle = "unmounted" => UNCHANGED <<animationFrame, nodeScales>>]_vars

\* the teardown came after 99 ticks of the timer
C25_Witness == lifecycle = "unmounted" /\ animationFrame = 99 /\ timers = 0

\* ------------------------------------------------------------------------
\* Reference notions for the loads and the drawn frames
\* ------------------------------------------------------------------------
\* nothing is queued and no effect is due
Quiet ==
  /\ ~crashed
  /\ effects = {}
  /\ canvasQueue = <<>>
  /\ ~pendLevels.set /\ ~pendPositions.set /\ ~pendDebug.set

\* the positions a layout pass computes from the props and the state
FreshPositions ==
  Layout(nodes, rootNodeId, nodeLevels, canvasSize.width, canvasSize.height).pos

\* C26: once the updates of a load have settled, the level map and the
\* position map are the ones computed from the loaded graph, and both are
\* empty when the loaded props fail the validation.
C26_LoadReplaces ==
  (Quiet /\ events >= 1) =>
    IF RootOk(nodes, rootNodeId)
    THEN /\ nodeLevels = ComputeLevels(nodes, rootNodeId)
         /\ nodePositions = FreshPositions
    ELSE nodeLevels = <<>> /\ nodePositions = <<>>

\* lines 345-349 and 419-423: the draw effect draws the keys of nodes that
\* have a position
DrawsSomething == \E id \in KeySet(nodes) : PosHas(nodePositions, id)

\* the level map and the position map of the render are the ones computed
\* from the graph and the canvas size of the render
MapsOfRender ==
  /\ RootOk(nodes, rootNodeId)
  /\ nodeLevels = ComputeLevels(nodes, rootNodeId)
  /\ nodePositions = FreshPositions

\* C27: the draw effect of a render, which runs with the other effects of
\* that render, draws nothing or draws the graph of the render with the
\* level map and the position map computed from that graph and that canvas
\* size.
C27_LayoutBeforeDraw ==
  [][(FlushEffects /\ ~crashed' /\ DrawsSomething) => MapsOfRender]_vars

\* ------------------------------------------------------------------------
\* Reference notions for nodes with several parents
\* ------------------------------------------------------------------------
\* every key is reachable from the root, every child is a key, and no node
\* reaches itself
Dag(ns, root) ==
  /\ HasNode(ns, root)
  /\ Reach(ns, root) = KeySet(ns)
  /\ ~HasCycle(ns, root)

\* the ids in the order the BFS of the level effect first takes them from
\* its queue
BfsOrder(ns, root) ==
  LET lv == ComputeLevels(ns, root) IN [i \in 1..Len(lv) |-> lv[i].id]

\* the first node in BFS order that lists c as a child
FirstVisitor(ns, root, c) ==
  LET o == BfsOrder(ns, root)
      i == CHOOSE i \in 1..Len(o) :
             /\ c \in Succ(ns, o[i])
             /\ \A j \in 1..(i - 1) : c \notin Succ(ns, o[j])
  IN  o[i]

\* C28: in a layout pass on an acyclic graph whose keys are all reachable,
\* the parent the layout takes for a node is the first node in BFS order
\* that lists it, and every node gets a position, also when a node is
\* listed by several nodes.
C28_FirstBfsParent ==
  (lastLayout.ran /\ Dag(lastLayout.nodes, lastLayout.root)) =>
    /\ ~lastLayout.threw
    /\ \A c \in KeySet(lastLayout.nodes) \ {lastLayout.root} :
         /\ FindParent(lastLayout.nodes, c)
              = FirstVisitor(lastLayout.nodes, lastLayout.root, c)
         /\ PosHas(lastLayout.pos, c)

\* ------------------------------------------------------------------------
\* Reference notions for what the view events leave alone
\* ------------------------------------------------------------------------
\* a step of a timer tick, of a zoom or view request or of a mouse event
ViewEvent ==
  \/ Tick
  \/ \E d \in BOOLEAN : handleWheel(d)
  \/ ZoomIn \/ ZoomOut \/ resetView
  \/ \E id \in CenterIds : centerOnNode(id)
  \/ \E p \in AnimPointers : handleMouseDown(p) \/ handleMouseMove(p)
  \/ handleMouseUp \/ handleMouseLeave

\* C29: a timer tick, a wheel event, Zoom In, Zoom Out, resetView,
\* centerOnNode and the four mouse events leave the level map and the
\* position map alone, queue nothing for them and make no effect due; a
\* layout pass runs only as an effect that is due, and the layout effect
\* becomes due only by a load of props or by a render that commits a new
\* level map or a new canvas size.
C29_LayoutByGraphAndSize ==
  [][/\ ViewEvent =>
          UNCHANGED <<nodeLevels, nodePositions, pendLevels, pendPositions,
                      canvasSize, canvasQueue, effects, lastLayout, layoutLog>>
     /\ lastLayout' # lastLayout => (FlushEffects /\ "layout" \in effects)
     /\ ("layout" \in effects' /\ "layout" \notin effects) =>
          \/ \E g \in MixedGraphs : LoadGraph(g)
          \/ Render /\ (nodeLevels' # nodeLevels \/ canvasSize' # canvasSize
                         \/ pendLevels.set)]_vars

\* a timer tick, a zoom and a selection have happened, the positions are
\* stored and nothing is due
C29_Witness ==
  /\ Quiet
  /\ nodePositions # <<>>
  /\ animationFrame = 1
  /\ scale # R(1)
  /\ selectedNode # NoNode
  /\ events = MaxMixedEvents

\* ------------------------------------------------------------------------
\* Reference notions for the growth of the canvas
\* ------------------------------------------------------------------------
\* the last layout pass left the canvas size unchanged, its positions are
\* stored, and no effect is due and no update is queued
GrowthEnded ==
  /\ Quiet
  /\ lastLayout.ran /\ ~lastLayout.threw
  /\ lastLayout.W = canvasSize.width /\ lastLayout.H = canvasSize.height
  /\ lastLayout.width = canvasSize.width /\ lastLayout.height = canvasSize.height
  /\ nodePositions = lastLayout.pos
  /\ nodePositions = FreshPositions

\* C30: after the mount with a valid graph and without further events the
\* loop of layout passes and canvas growth ends: from some point on the last
\* pass has left the canvas size unchanged, nothing more is due, and the
\* stored positions are the ones computed for the final canvas width.
C30_GrowthEnds == <>[]GrowthEnded

\* the growth has ended after at least three passes on a canvas wider than
\* the initial one and the container
C30_Witness ==
  /\ GrowthEnded
  /\ Cardinality(layoutLog) >= 3
  /\ RLt(R(InitCanvasWidth), canvasSize.width)
  /\ RLt(containerSize.width, canvasSize.width)

====
